---- MODULE Spec2Model ----
(***************************************************************************)
(* FLUTE, FedLabels strategy (core/strategies/fedlabels.py) and the rank   *)
(* set-up of e2e_trainer.run_worker.                                       *)
(*                                                                         *)
(* Tensors are abstracted to exact rational scalars [n |-> _, d |-> _]     *)
(* (one number per state_dict key), so "equal" below means equal in exact  *)
(* arithmetic; floating-point rounding is outside the model.               *)
(***************************************************************************)
EXTENDS Integers, Sequences, FiniteSets, TLC

(* ---------------------------- bounds ---------------------------------- *)
\* most weights held in client_weights at once
MaxPayloads == 2
\* most payloads accepted over one behaviour (all rounds together)
MaxAccepted == 3
\* the larger of the two non-zero payload weights / num_samples values
MaxWeight == 3
\* the larger of the two base values of a trainer's tensors
MaxVal == 2

(* ----------------------- exact rational arithmetic -------------------- *)
RECURSIVE GCD(_, _)
GCD(a, b) == IF b = 0 THEN a ELSE GCD(b, a % b)

Abs(x) == IF x < 0 THEN -x ELSE x

\* the rational n/d (d > 0) in lowest terms
Rat(n, d) ==
    LET g == GCD(Abs(n), d)
    IN  [n |-> n \div g, d |-> d \div g]

RInt(v) == [n |-> v, d |-> 1]

\* tensor * ratio
RMul(a, b) == Rat(a.n * b.n, a.d * b.d)

\* tensor + tensor
RAdd(a, b) == Rat(a.n * b.d + b.n * a.d, a.d * b.d)

\* tensor / 2
RHalf(a) == Rat(a.n, a.d * 2)

RECURSIVE SumSeq(_)
SumSeq(s) == IF s = <<>> THEN 0 ELSE Head(s) + SumSeq(Tail(s))

Min(a, b) == IF a < b THEN a ELSE b

(* ----------------------------- the model ------------------------------ *)
\* worker_trainer.model.state_dict() keys of the global model, in order
keys == <<"p", "q">>

NumKeys == Len(keys)

KeySet == {keys[i] : i \in 1..NumKeys}

\* a dict with no entry
EmptyDict == [k \in {} |-> RInt(0)]

\* (entries of model.state_dict(), entries of algo_computation) of a client
\* trainer: the matching layout, both short, both long, and an odd total
Shapes ==
    { <<NumKeys, NumKeys>>, <<NumKeys - 1, NumKeys - 1>>,
      <<NumKeys + 1, NumKeys + 1>>, <<NumKeys - 1, NumKeys>> }

\* client trainers: num_samples, whether the object has an algo_computation
\* attribute at all, and its two dictionaries (size by shape, values by v)
Trainers ==
    { t \in [num_samples : {0, 1, MaxWeight}, has_algo : BOOLEAN,
             shape : Shapes, v : {1, MaxVal}] :
        t.shape = <<NumKeys, NumKeys>> \/ t.v = 1 }

\* trainer.model.state_dict() values in key order
state_dict(t) == [i \in 1..t.shape[1] |-> RInt(t.v + (i - 1))]

\* trainer.algo_computation values in key order
algo_computation(t) == [i \in 1..t.shape[2] |-> RInt(2 * t.v + i)]

WellFormed(g) == Len(g) = 2 * NumKeys

\* payload['gradients'] = sup_grads + unsup_grads
Gradients(t) == state_dict(t) \o algo_computation(t)

\* a variant without the guard for a client that saw no sample
PayloadWeightNoGuard(num_samples) == num_samples

\* weight = 1 if trainer.num_samples == 0 else trainer.num_samples
PayloadWeight(num_samples) == IF num_samples = 0 THEN 1 ELSE num_samples

MakePayload(t) == [weight |-> PayloadWeight(t.num_samples), gradients |-> Gradients(t)]

\* payloads handed to the server: every layout a client can build, the
\* matching layout with each of the weights 0, 1, MaxWeight (0 is what
\* process_individual_payload rejects), the other layouts with weight 1
Payloads ==
    { p \in { [weight |-> w, gradients |-> Gradients(t)] :
                w \in {0, 1, MaxWeight},
                t \in {x \in Trainers : x.has_algo /\ x.num_samples = 0} } :
        WellFormed(p.gradients) \/ p.weight = 1 }

(* ------------------------ strategy instance state --------------------- *)
VARIABLES
    mode,                    \* self.mode: "client" or "server"
    aggregate_fast,          \* self.aggregate_fast (server_config fast_aggregation)
    skip_model_update,       \* self.skip_model_update
    dump_norm_stats,         \* self.dump_norm_stats
    stats_on_smooth_grad,    \* self.stats_on_smooth_grad (client)
    client_weights,          \* self.client_weights
    client_parameters_stack, \* self.client_parameters_stack
    model_state,             \* worker_trainer.model.state_dict() on the server
    last,                    \* the last call: operation, arguments, outcome
    events,                  \* collaborator calls made by the last call, in order
    accepted,                \* payloads whose weight was recorded since the buffers were last reset
    since_ok,                \* weights recorded since combine_payloads last returned normally
    since_combine,           \* payloads accepted since the last combine_payloads call
    accept_count,            \* payloads accepted so far in this behaviour
    prev_combine,            \* "update_raised" if the latest combine_payloads call before the call
                             \* in `last` raised in update_model or run_lr_scheduler, else "other"
    last_trainer             \* <<trainer>> handed to generate_client_payload by the last call, else <<>>

svars ==
    << mode, aggregate_fast, skip_model_update, dump_norm_stats, stats_on_smooth_grad,
       client_weights, client_parameters_stack, model_state, last, events,
       accepted, since_ok, since_combine, accept_count, prev_combine, last_trainer >>

\* a call record: the operation, the exception it raised ("none" if it
\* returned), its return value, and its payloads: the argument of
\* process_individual_payload, the result of generate_client_payload, the
\* payloads accepted into the round that combine_payloads was entered with
Call(op, exc, ret, ps) == [op |-> op, exc |-> exc, ret |-> ret, payloads |-> ps]

NoCall == Call("none", "none", "none", <<>>)

\* no combine_payloads call that raised in update_model or run_lr_scheduler
NoCombine == "other"

\* the call in `last` is a combine_payloads call in which update_model or
\* run_lr_scheduler raised
UpdateRaised ==
    /\ last.op = "combine" /\ last.exc = "ExternalError"
    /\ \E i \in 1..Len(events) : events[i] = "update_model"

\* what is kept of a combine_payloads call in `last` once a later call replaces
\* it: whether it raised in update_model or run_lr_scheduler
Remember ==
    IF last.op = "combine"
    THEN (IF UpdateRaised THEN "update_raised" ELSE "other")
    ELSE prev_combine

(* ----------------------- aggregate_gradients_inplace ------------------ *)
\* for param_key, client_dict in zip(keys, values): tmp[param_key] (+)= client_dict * ratio
aggregate_gradients_inplace(ks, values, first, tmp, ratio) ==
    LET n == Min(Len(ks), Len(values))
        zk == {ks[i] : i \in 1..n}
        at(k) == values[CHOOSE i \in 1..n : ks[i] = k]
    IN  IF first
        THEN [exc |-> "none", first |-> FALSE,
              tmp |-> [k \in (DOMAIN tmp) \cup zk |->
                         IF k \in zk THEN RMul(at(k), ratio) ELSE tmp[k]]]
        ELSE IF \E k \in zk : k \notin DOMAIN tmp
        THEN [exc |-> "KeyError", first |-> first, tmp |-> tmp]
        ELSE [exc |-> "none", first |-> FALSE,
              tmp |-> [k \in DOMAIN tmp |->
                         IF k \in zk THEN RAdd(tmp[k], RMul(at(k), ratio)) ELSE tmp[k]]]

\* the two "for ... in enumerate(...)" loops of _aggregate_gradients, from index j
RECURSIVE AggregateLoop(_, _, _, _, _)
AggregateLoop(dicts, ratios, j, first, tmp) ==
    IF j > Len(dicts)
    THEN [exc |-> "none", tmp |-> tmp]
    ELSE LET r == aggregate_gradients_inplace(keys, dicts[j], first, tmp, ratios[j])
         IN  IF r.exc # "none"
             THEN [exc |-> r.exc, tmp |-> tmp]
             ELSE AggregateLoop(dicts, ratios, j + 1, r.first, r.tmp)

(* -------------------------- _aggregate_gradients ---------------------- *)
\* sup_slice = int(len(self.client_parameters_stack[0])/2)
sup_slice(stack) == Len(stack[1]) \div 2

\* client_dict[:sup_slice]
model_dicts(stack) ==
    [i \in 1..Len(stack) |-> SubSeq(stack[i], 1, Min(sup_slice(stack), Len(stack[i])))]

\* client_dict[sup_slice:]
unsup_dicts(stack) ==
    [i \in 1..Len(stack) |-> SubSeq(stack[i], sup_slice(stack) + 1, Len(stack[i]))]

\* a variant that weights the supervised half by declared weight
RatioSupByWeight(weights) ==
    [j \in 1..Len(weights) |-> Rat(weights[j], SumSeq(weights))]

\* ratio_sup = 1/len(client_weights), one entry per client
ratio_sup(weights) == [j \in 1..Len(weights) |-> Rat(1, Len(weights))]

\* ratio_unsup = np.array(client_weights)/weight_sum
ratio_unsup(weights) ==
    [j \in 1..Len(weights) |-> Rat(weights[j], SumSeq(weights))]

AggResult(exc, ws, ts, tu) == [exc |-> exc, weight_sum |-> ws, tmp_sup |-> ts, tmp_unsup |-> tu]

\* lines 194-210 of _aggregate_gradients for a non-empty buffer: the ratios and
\* the two aggregation loops (skipped when aggregate_fast)
AggregateBuffered(stack, weights, fast) ==
    IF Len(weights) = 0
    THEN AggResult("ZeroDivisionError", 0, EmptyDict, EmptyDict)
    ELSE IF fast
    THEN AggResult("none", SumSeq(weights), EmptyDict, EmptyDict)
    ELSE LET s == AggregateLoop(model_dicts(stack), ratio_sup(weights), 1, TRUE, EmptyDict)
             u == AggregateLoop(unsup_dicts(stack), ratio_unsup(weights), 1, TRUE, EmptyDict)
         IN  IF s.exc # "none"
             THEN AggResult(s.exc, SumSeq(weights), EmptyDict, EmptyDict)
             ELSE IF u.exc # "none"
             THEN AggResult(u.exc, SumSeq(weights), EmptyDict, EmptyDict)
             ELSE AggResult("none", SumSeq(weights), s.tmp, u.tmp)

\* a variant that treats an empty buffer as an aggregate with no entries
AggregateEmptyOk(stack, weights, fast) ==
    IF stack = <<>>
    THEN AggResult("none", SumSeq(weights), EmptyDict, EmptyDict)
    ELSE AggregateBuffered(stack, weights, fast)

\* the body of _aggregate_gradients up to (not including) the buffer reset;
\* exc names the exception raised before the reset, if any: the read of
\* client_parameters_stack[0] (line 189) raises IndexError on an empty buffer
aggregate_gradients(stack, weights, fast) ==
    IF stack = <<>>
    THEN AggResult("IndexError", 0, EmptyDict, EmptyDict)
    ELSE AggregateBuffered(stack, weights, fast)

(* ------------------------- disjoint aggregation ----------------------- *)
\* tmp_both[param_key] = self.tmp_sup[param_key]/2 + self.tmp_unsup[param_key]/2
tmp_both(ts, tu) ==
    IF \E k \in DOMAIN tu : k \notin DOMAIN ts
    THEN [exc |-> "KeyError", d |-> EmptyDict]
    ELSE [exc |-> "none", d |-> [k \in DOMAIN tu |-> RAdd(RHalf(ts[k]), RHalf(tu[k]))]]

\* worker_trainer.model.load_state_dict(tmp_both), strict: the entries present
\* are copied, then a missing key raises RuntimeError
load_state_dict(m, d) ==
    [exc |-> IF DOMAIN d = KeySet THEN "none" ELSE "RuntimeError",
     model |-> [k \in KeySet |-> IF k \in DOMAIN d THEN d[k] ELSE m[k]]]

(* ------------------------------ __init__ ------------------------------ *)
InitialModel == [k \in KeySet |-> RInt(0)]

\* FedLabels.__init__: a client-mode instance has no server fields (shown here
\* as FALSE / empty), a server-mode instance starts with empty accumulators
StrategyInit ==
    /\ mode \in {"client", "server"}
    /\ aggregate_fast \in (IF mode = "server" THEN BOOLEAN ELSE {FALSE})
    /\ dump_norm_stats \in (IF mode = "server" THEN BOOLEAN ELSE {FALSE})
    /\ stats_on_smooth_grad \in (IF mode = "client" THEN BOOLEAN ELSE {FALSE})
    /\ skip_model_update = FALSE
    /\ client_parameters_stack = <<>>
    /\ client_weights = <<>>
    /\ model_state = InitialModel
    /\ last = NoCall
    /\ events = <<>>
    /\ accepted = <<>>
    /\ since_ok = <<>>
    /\ since_combine = 0
    /\ accept_count = 0
    /\ prev_combine = NoCombine
    /\ last_trainer = <<>>

(* ----------------------- generate_client_payload ---------------------- *)
\* outcome of generate_client_payload(trainer): trainer.algo_computation is
\* read first (line 73), then the mode is checked (line 75)
GenerateOutcome(t) ==
    IF ~t.has_algo THEN "AttributeError"
    ELSE IF mode # "client" THEN "RuntimeError"
    ELSE "none"

generate_client_payload(t) ==
    LET exc == GenerateOutcome(t)
    IN  /\ last' = IF exc = "none"
                   THEN Call("generate", "none", "payload", <<MakePayload(t)>>)
                   ELSE Call("generate", exc, "raise", <<>>)
        /\ events' = IF exc = "none" /\ stats_on_smooth_grad
                     THEN <<"reset_gradient_power", "estimate_sufficient_stats">>
                     ELSE <<>>
        /\ UNCHANGED << mode, aggregate_fast, skip_model_update, dump_norm_stats,
                        stats_on_smooth_grad, client_weights, client_parameters_stack,
                        model_state, accepted, since_ok, since_combine, accept_count >>

(* --------------------- process_individual_payload --------------------- *)
\* a variant without the zero-weight test
RejectsNothing(p) == FALSE

\* whether the payload is turned away (line 110)
Rejects(p) == p.weight = 0

\* a variant that records the weight and never buffers the gradients
AppendWeightOnly(st, ws, p, fast) == [weights |-> Append(ws, p.weight), stack |-> st]

\* the buffers after an accepted payload (lines 113-117): the weight is
\* recorded, then the fast branch calls aggregate_gradients_inplace with two
\* of its five positional arguments (TypeError), the other branch buffers
AcceptPayload(st, ws, p, fast) ==
    [weights |-> Append(ws, p.weight),
     stack |-> IF fast THEN st ELSE Append(st, p.gradients)]

process_individual_payload(p) ==
    IF mode # "server"
    THEN /\ last' = Call("process", "RuntimeError", "raise", <<p>>)
         /\ events' = <<>>
         /\ UNCHANGED << mode, aggregate_fast, skip_model_update, dump_norm_stats,
                         stats_on_smooth_grad, client_weights, client_parameters_stack,
                         model_state, accepted, since_ok, since_combine, accept_count >>
    ELSE IF Rejects(p)
    THEN /\ last' = Call("process", "none", "False", <<p>>)
         /\ events' = <<>>
         /\ UNCHANGED << mode, aggregate_fast, skip_model_update, dump_norm_stats,
                         stats_on_smooth_grad, client_weights, client_parameters_stack,
                         model_state, accepted, since_ok, since_combine, accept_count >>
    ELSE \E b \in {AcceptPayload(client_parameters_stack, client_weights, p, aggregate_fast)} :
             /\ Len(client_weights) < MaxPayloads
             /\ accept_count < MaxAccepted
             /\ client_weights' = b.weights
             /\ client_parameters_stack' = b.stack
             /\ last' = IF aggregate_fast
                        THEN Call("process", "TypeError", "raise", <<p>>)
                        ELSE Call("process", "none", "True", <<p>>)
             /\ events' = <<>>
             /\ accepted' = Append(accepted, p)
             /\ since_ok' = Append(since_ok, p.weight)
             /\ since_combine' = since_combine + 1
             /\ accept_count' = accept_count + 1
             /\ UNCHANGED << mode, aggregate_fast, skip_model_update, dump_norm_stats,
                             stats_on_smooth_grad, model_state >>

(* --------------------------- combine_payloads ------------------------- *)
\* a variant in which lines 213-214 are missing
OutcomeNoReset(exc, ret, reset, m, ev) ==
    [exc |-> exc, ret |-> ret, reset |-> FALSE, model |-> m, events |-> ev]

\* what a combine_payloads call leaves behind: the exception it raised
\* ("none" if it returned), its return value, whether the buffers were reset,
\* the model's state_dict and the collaborator calls it made
Outcome(exc, ret, reset, m, ev) ==
    [exc |-> exc, ret |-> ret, reset |-> reset, model |-> m, events |-> ev]

\* lines 138-149 on a server-mode instance: aggregation, disjoint blend and
\* load_state_dict; done says whether the call got past load_state_dict
AggregateAndLoad ==
    LET agg == aggregate_gradients(client_parameters_stack, client_weights, aggregate_fast)
        both == tmp_both(agg.tmp_sup, agg.tmp_unsup)
        ld == load_state_dict(model_state, both.d)
    IN  IF agg.exc # "none"
        THEN [done |-> FALSE, out |-> Outcome(agg.exc, "raise", FALSE, model_state, <<>>)]
        ELSE IF both.exc # "none"
        THEN [done |-> FALSE,
              out |-> Outcome(both.exc, "raise", TRUE, model_state, <<"aggregate", "reset">>)]
        ELSE [done |-> ld.exc = "none",
              out |-> Outcome(ld.exc, IF ld.exc = "none" THEN "None" ELSE "raise", TRUE,
                              ld.model, <<"aggregate", "reset", "load_state_dict">>)]

\* the external collaborators a call that got past load_state_dict goes on to
\* use, each of which may raise: compute_grad_cosines / the cosines file
\* (lines 151-154), update_model (line 162), run_lr_scheduler (line 164)
Externals(done) ==
    {"ok"}
    \cup (IF done /\ dump_norm_stats THEN {"dump_raises"} ELSE {})
    \cup (IF done /\ ~skip_model_update THEN {"update_raises", "scheduler_raises"} ELSE {})

\* a variant that runs the optimizer step before the blend is loaded
UpdateBeforeLoad(o, ext) ==
    LET e4 == IF dump_norm_stats THEN Append(o.events, "compute_grad_cosines") ELSE o.events
        e2 == SubSeq(o.events, 1, 2)
    IN  IF ext = "dump_raises"
        THEN Outcome("ExternalError", "raise", TRUE, o.model, e4)
        ELSE IF skip_model_update
        THEN Outcome("none", "None", TRUE, o.model, e4)
        ELSE IF ext = "update_raises"
        THEN Outcome("ExternalError", "raise", TRUE, model_state, Append(e2, "update_model"))
        ELSE IF ext = "scheduler_raises"
        THEN Outcome("ExternalError", "raise", TRUE, o.model,
                     e2 \o <<"update_model", "load_state_dict", "run_lr_scheduler">>)
        ELSE Outcome("none", "losses", TRUE, o.model,
                     e2 \o <<"update_model", "load_state_dict", "run_lr_scheduler">>)

\* a variant that does not look at skip_model_update
UpdateIgnoringSkip(o, ext) ==
    LET e4 == IF dump_norm_stats THEN Append(o.events, "compute_grad_cosines") ELSE o.events
    IN  IF ext = "dump_raises"
        THEN Outcome("ExternalError", "raise", TRUE, o.model, e4)
        ELSE IF ext = "update_raises"
        THEN Outcome("ExternalError", "raise", TRUE, o.model, Append(e4, "update_model"))
        ELSE IF ext = "scheduler_raises"
        THEN Outcome("ExternalError", "raise", TRUE, o.model,
                     e4 \o <<"update_model", "run_lr_scheduler">>)
        ELSE Outcome("none", "losses", TRUE, o.model,
                     e4 \o <<"update_model", "run_lr_scheduler">>)

\* a variant in which the buffers are cleared only by a call that returns
UpdateThenReset(o, ext) ==
    LET e4 == IF dump_norm_stats THEN Append(o.events, "compute_grad_cosines") ELSE o.events
    IN  IF ext = "dump_raises"
        THEN Outcome("ExternalError", "raise", FALSE, o.model, e4)
        ELSE IF skip_model_update
        THEN Outcome("none", "None", TRUE, o.model, e4)
        ELSE IF ext = "update_raises"
        THEN Outcome("ExternalError", "raise", FALSE, o.model, Append(e4, "update_model"))
        ELSE IF ext = "scheduler_raises"
        THEN Outcome("ExternalError", "raise", FALSE, o.model,
                     e4 \o <<"update_model", "run_lr_scheduler">>)
        ELSE Outcome("none", "losses", TRUE, o.model,
                     e4 \o <<"update_model", "run_lr_scheduler">>)

\* lines 151-168 after a load_state_dict that returned; ext names the
\* collaborator that raises, if any
UpdateAndSchedule(o, ext) ==
    LET e4 == IF dump_norm_stats THEN Append(o.events, "compute_grad_cosines") ELSE o.events
    IN  IF ext = "dump_raises"
        THEN Outcome("ExternalError", "raise", TRUE, o.model, e4)
        ELSE IF skip_model_update
        THEN Outcome("none", "None", TRUE, o.model, e4)
        ELSE IF ext = "update_raises"
        THEN Outcome("ExternalError", "raise", TRUE, o.model, Append(e4, "update_model"))
        ELSE IF ext = "scheduler_raises"
        THEN Outcome("ExternalError", "raise", TRUE, o.model,
                     e4 \o <<"update_model", "run_lr_scheduler">>)
        ELSE Outcome("none", "losses", TRUE, o.model,
                     e4 \o <<"update_model", "run_lr_scheduler">>)

combine_payloads ==
    IF mode # "server"
    THEN /\ last' = Call("combine", "RuntimeError", "raise", <<>>)
         /\ events' = <<>>
         /\ UNCHANGED << mode, aggregate_fast, skip_model_update, dump_norm_stats,
                         stats_on_smooth_grad, client_weights, client_parameters_stack,
                         model_state, accepted, since_ok, since_combine, accept_count >>
    ELSE \E a \in {AggregateAndLoad} :
           \E ext \in Externals(a.done) :
             \E o \in {IF a.done THEN UpdateAndSchedule(a.out, ext) ELSE a.out} :
                    /\ last' = Call("combine", o.exc, o.ret, accepted)
                    /\ events' = o.events
                    /\ model_state' = o.model
                    /\ client_weights' = IF o.reset THEN <<>> ELSE client_weights
                    /\ client_parameters_stack' =
                           IF o.reset THEN <<>> ELSE client_parameters_stack
                    /\ accepted' = IF o.reset THEN <<>> ELSE accepted
                    /\ since_ok' = IF o.exc = "none" THEN <<>> ELSE since_ok
                    /\ since_combine' = 0
                    /\ UNCHANGED << mode, aggregate_fast, skip_model_update, dump_norm_stats,
                                    stats_on_smooth_grad, accept_count >>

\* the server flips self.skip_model_update between rounds
set_skip_model_update ==
    /\ mode = "server"
    /\ client_weights = <<>>
    /\ skip_model_update' = ~skip_model_update
    /\ last' = NoCall
    /\ events' = <<>>
    /\ UNCHANGED << mode, aggregate_fast, dump_norm_stats, stats_on_smooth_grad,
                    client_weights, client_parameters_stack, model_state,
                    accepted, since_ok, since_combine, accept_count >>

(* ------------------- e2e_trainer.run_worker, all ranks ---------------- *)
\* worker ranks 1..NumWorkers next to the server on rank 0
NumWorkers == 2

VARIABLES
    has_train,        \* 'train' in config['server_config']['data_config']
    has_pretrained,   \* find_pretrained_model(...) is not None
    pc0,              \* where rank 0 is in run_worker
    server_bound,     \* the local name `server` has been assigned
    raised,           \* the set-up step that raised inside the try block ("none" if none)
    catchable,        \* the raised exception derives from Exception
    terminate_calls,  \* calls of server.terminate_workers() made so far
    shutdown_sent,    \* the termination signal has been broadcast
    propagated,       \* the exception that left run_worker on rank 0 ("none" if none)
    run_entered,      \* server.run() has been entered
    worker_pc         \* worker rank -> "start" | "waiting" | "terminated"

rvars ==
    << has_train, has_pretrained, pc0, server_bound, raised, catchable, terminate_calls,
       shutdown_sent, propagated, run_entered, worker_pc >>

(* ----------------- core.strategies.select_strategy -------------------- *)
VARIABLES
    strategy_name,    \* the argument of the last select_strategy call (a sequence of characters)
    selected          \* what the call returned ("DGA", "FedAvg", "FedLabels"), "ValueError"
                      \* if it raised, "none" before the first call

nvars == << strategy_name, selected >>

vars == << svars, rvars, nvars >>

\* letters of the strategy names and one letter of no name, in both cases
LowerLetters == << "a", "b", "d", "e", "f", "g", "l", "s", "v", "x" >>
UpperLetters == << "A", "B", "D", "E", "F", "G", "L", "S", "V", "X" >>

\* str.lower() on one character: an upper-case letter becomes its lower-case
\* letter, every other character is kept
lower_char(c) ==
    IF \E i \in 1..Len(UpperLetters) : UpperLetters[i] = c
    THEN LowerLetters[CHOOSE i \in 1..Len(UpperLetters) : UpperLetters[i] = c]
    ELSE c

\* strategy.lower()
lower(name) == [i \in 1..Len(name) |-> lower_char(name[i])]

\* the literals compared with at lines 10, 12 and 14
name_dga == << "d", "g", "a" >>
name_fedavg == << "f", "e", "d", "a", "v", "g" >>
name_fedlabels == << "f", "e", "d", "l", "a", "b", "e", "l", "s" >>

\* a variant that compares the name as given
select_exact(name) ==
    IF name = name_dga THEN "DGA"
    ELSE IF name = name_fedavg THEN "FedAvg"
    ELSE IF name = name_fedlabels THEN "FedLabels"
    ELSE "ValueError"

\* select_strategy(strategy): the class returned, or the exception raised
select_strategy(name) ==
    IF lower(name) = name_dga THEN "DGA"
    ELSE IF lower(name) = name_fedavg THEN "FedAvg"
    ELSE IF lower(name) = name_fedlabels THEN "FedLabels"
    ELSE "ValueError"

\* the upper-case form of a lower-case letter; any other character is kept
UpperOf(c) ==
    IF \E i \in 1..Len(LowerLetters) : LowerLetters[i] = c
    THEN UpperLetters[CHOOSE i \in 1..Len(LowerLetters) : LowerLetters[i] = c]
    ELSE c

\* every spelling of a lower-case word with each letter in either case
RECURSIVE CaseVariants(_)
CaseVariants(w) ==
    IF w = <<>> THEN {<<>>}
    ELSE {<<c>> \o r : c \in {Head(w), UpperOf(Head(w))}, r \in CaseVariants(Tail(w))}

\* words that are no strategy name: a name cut short, a name with one more
\* character (a letter, a blank, a digit), a name with a hyphen in it
NearMisses(w) ==
    {SubSeq(w, 1, n) : n \in 0..(Len(w) - 1)}
    \cup {Append(w, c) : c \in {"x", "X", " ", "2"}}
    \cup {<<c>> \o w : c \in {"x", " "}}
    \cup {SubSeq(w, 1, 3) \o <<"-">> \o SubSeq(w, 4, Len(w))}

\* the names select_strategy is called with
Names ==
    CaseVariants(name_dga) \cup CaseVariants(name_fedavg) \cup CaseVariants(name_fedlabels)
    \cup UNION {CaseVariants(m) : m \in NearMisses(name_dga)}
    \cup NearMisses(name_fedavg) \cup NearMisses(name_fedlabels)
    \cup {<<"f", "e", "d", "s", "a", "g", "e">>}

SelectInit == strategy_name = <<>> /\ selected = "none"

\* one call of select_strategy
Select(name) ==
    /\ strategy_name' = name
    /\ selected' = select_strategy(name)

\* the statements of the try block (lines 119-156), in order
SetupSteps ==
    << "make_train_dataloader", "make_optimizer", "load_pretrained_model",
       "select_server", "server_setup", "log_run_properties" >>

\* the next step after position i that this configuration executes
RECURSIVE NextStep(_)
NextStep(i) ==
    IF i > Len(SetupSteps) THEN "launch"
    ELSE IF SetupSteps[i] = "make_train_dataloader" /\ ~has_train THEN NextStep(i + 1)
    ELSE SetupSteps[i]

StepIndex(name) == CHOOSE i \in 1..Len(SetupSteps) : SetupSteps[i] = name

RunWorkerInit ==
    /\ has_train \in BOOLEAN
    /\ has_pretrained \in BOOLEAN
    /\ pc0 = "try"
    /\ server_bound = FALSE
    /\ raised = "none"
    /\ catchable = TRUE
    /\ terminate_calls = 0
    /\ shutdown_sent = FALSE
    /\ propagated = "none"
    /\ run_entered = FALSE
    /\ worker_pc = [w \in 1..NumWorkers |-> "start"]

\* rank 0 enters the try block (line 119)
EnterTry ==
    /\ pc0 = "try"
    /\ pc0' = NextStep(1)
    /\ UNCHANGED << has_train, has_pretrained, server_bound, raised, catchable,
                    terminate_calls, shutdown_sent, propagated, run_entered, worker_pc >>

\* whether `server` is bound once the step at pc0 has completed (line 144)
BindsServer(step) == step = "server_setup"

\* one statement of the try block completes, or raises (ok = FALSE); an
\* exception that does not derive from Exception skips the handler
SetupStep(ok, exc_catchable) ==
    /\ pc0 \in {SetupSteps[i] : i \in 1..Len(SetupSteps)}
    /\ IF ok
       THEN /\ pc0' = NextStep(StepIndex(pc0) + 1)
            /\ server_bound' = (server_bound \/ BindsServer(pc0))
            /\ UNCHANGED << raised, catchable, propagated >>
       ELSE /\ raised' = pc0
            /\ catchable' = exc_catchable
            /\ pc0' = IF exc_catchable THEN "except" ELSE "exited"
            /\ propagated' = IF exc_catchable THEN "none" ELSE pc0
            /\ UNCHANGED server_bound
    /\ UNCHANGED << has_train, has_pretrained, terminate_calls, shutdown_sent,
                    run_entered, worker_pc >>

\* except Exception as e: server.terminate_workers() (lines 158-160); reading
\* an unassigned local raises UnboundLocalError, which leaves run_worker
HandlerTerminate(ok) ==
    /\ pc0 = "except"
    /\ IF ~server_bound
       THEN /\ pc0' = "exited"
            /\ propagated' = "UnboundLocalError"
            /\ UNCHANGED << terminate_calls, shutdown_sent >>
       ELSE /\ terminate_calls' = terminate_calls + 1
            /\ shutdown_sent' = ok
            /\ pc0' = IF ok THEN "reraise" ELSE "exited"
            /\ propagated' = IF ok THEN "none" ELSE "TerminateError"
    /\ UNCHANGED << has_train, has_pretrained, server_bound, raised, catchable,
                    run_entered, worker_pc >>

\* raise e (line 161)
HandlerReraise ==
    /\ pc0 = "reraise"
    /\ pc0' = "exited"
    /\ propagated' = raised
    /\ UNCHANGED << has_train, has_pretrained, server_bound, raised, catchable,
                    terminate_calls, shutdown_sent, run_entered, worker_pc >>

\* server.run() (line 164)
Launch ==
    /\ pc0 = "launch"
    /\ pc0' = "running"
    /\ run_entered' = TRUE
    /\ UNCHANGED << has_train, has_pretrained, server_bound, raised, catchable,
                    terminate_calls, shutdown_sent, propagated, worker_pc >>

\* a worker rank builds its Worker and blocks in worker.run() (lines 166-180)
WorkerRun(w) ==
    /\ worker_pc[w] = "start"
    /\ worker_pc' = [worker_pc EXCEPT ![w] = "waiting"]
    /\ UNCHANGED << has_train, has_pretrained, pc0, server_bound, raised, catchable,
                    terminate_calls, shutdown_sent, propagated, run_entered >>

\* a blocked worker receives the termination signal and leaves worker.run()
WorkerTerminate(w) ==
    /\ worker_pc[w] = "waiting"
    /\ shutdown_sent
    /\ worker_pc' = [worker_pc EXCEPT ![w] = "terminated"]
    /\ UNCHANGED << has_train, has_pretrained, pc0, server_bound, raised, catchable,
                    terminate_calls, shutdown_sent, propagated, run_entered >>

Enter == EnterTry /\ UNCHANGED << svars, nvars >>
Setup == (\E ok \in BOOLEAN, c \in BOOLEAN : SetupStep(ok, c)) /\ UNCHANGED << svars, nvars >>
Handler == (\E ok \in BOOLEAN : HandlerTerminate(ok)) /\ UNCHANGED << svars, nvars >>
Reraise == HandlerReraise /\ UNCHANGED << svars, nvars >>
LaunchServer == Launch /\ UNCHANGED << svars, nvars >>
WorkerStart == (\E w \in 1..NumWorkers : WorkerRun(w)) /\ UNCHANGED << svars, nvars >>
WorkerStop == (\E w \in 1..NumWorkers : WorkerTerminate(w)) /\ UNCHANGED << svars, nvars >>

(* ------------------------- strategy call sites ------------------------ *)
\* trainers handed to generate_client_payload: any client trainer on a
\* client, and on a server the model updater, with or without algo_computation
TrainersFor(m) ==
    IF m = "client" THEN Trainers
    ELSE {t \in Trainers : t.shape = <<NumKeys, NumKeys>> /\ t.v = 1 /\ t.num_samples = 0}

Generate ==
    /\ \E t \in TrainersFor(mode) : generate_client_payload(t) /\ last_trainer' = <<t>>
    /\ prev_combine' = Remember
    /\ UNCHANGED << rvars, nvars >>

Process ==
    /\ \E p \in Payloads : process_individual_payload(p)
    /\ prev_combine' = Remember /\ last_trainer' = <<>>
    /\ UNCHANGED << rvars, nvars >>

Combine ==
    /\ combine_payloads
    /\ prev_combine' = Remember /\ last_trainer' = <<>>
    /\ UNCHANGED << rvars, nvars >>

SetSkip ==
    /\ set_skip_model_update
    /\ prev_combine' = Remember /\ last_trainer' = <<>>
    /\ UNCHANGED << rvars, nvars >>

(* ---------------------------- specifications -------------------------- *)
\* the strategy instance under any sequence of calls; run_worker is at rest
Init == StrategyInit /\ RunWorkerInit /\ has_train /\ has_pretrained /\ SelectInit

Next == Generate \/ Process \/ Combine \/ SetSkip

Spec == Init /\ [][Next]_vars

\* run_worker on every rank; the strategy is a fresh buffered server instance
InitRunWorker ==
    /\ StrategyInit /\ mode = "server" /\ ~aggregate_fast /\ ~dump_norm_stats
    /\ RunWorkerInit
    /\ SelectInit

NextRunWorker ==
    Enter \/ Setup \/ Handler \/ Reraise \/ LaunchServer \/ WorkerStart \/ WorkerStop

SpecRunWorker == InitRunWorker /\ [][NextRunWorker]_vars

\* select_strategy under any sequence of calls; nothing else runs
InitSelect ==
    /\ StrategyInit /\ mode = "server" /\ ~aggregate_fast /\ ~dump_norm_stats
    /\ RunWorkerInit /\ has_train /\ has_pretrained
    /\ SelectInit

SelectStrategy == (\E name \in Names : Select(name)) /\ UNCHANGED << svars, rvars >>

NextSelect == SelectStrategy

SpecSelect == InitSelect /\ [][NextSelect]_vars

(* ------------------------------ properties ---------------------------- *)
Buffered == mode = "server" /\ ~aggregate_fast

Stack(ps) == [i \in 1..Len(ps) |-> ps[i].gradients]
Weights(ps) == [i \in 1..Len(ps) |-> ps[i].weight]

AllWellFormed(ps) == \A i \in 1..Len(ps) : WellFormed(ps[i].gradients)

RECURSIVE SumTo(_, _)
SumTo(f, n) == IF n = 0 THEN 0 ELSE f[n] + SumTo(f, n - 1)

\* (sum_i s_i[k] / n) / 2 + (sum_i w_i * u_i[k] / sum_i w_i) / 2 at the k-th key,
\* for payloads whose gradients are s_i followed by u_i
ClosedForm(ps, k) ==
    LET n == Len(ps)
        s == [i \in 1..n |-> ps[i].gradients[k].n]
        wu == [i \in 1..n |-> ps[i].weight * ps[i].gradients[NumKeys + k].n]
        w == [i \in 1..n |-> ps[i].weight]
    IN  RAdd(Rat(SumTo(s, n), 2 * n), Rat(SumTo(wu, n), 2 * SumTo(w, n)))

\* C1: in buffered mode, a combine_payloads call entered with a non-empty round
\* of accepted payloads, each a supervised list followed by an unsupervised list
\* over the model's keys, calls load_state_dict, and the model then holds at
\* every key the uniform mean of the supervised values halved plus the
\* weight-normalised mean of the unsupervised values halved.
C1_DisjointBlend ==
    (Buffered /\ last.op = "combine" /\ last.payloads # <<>> /\ AllWellFormed(last.payloads))
        => /\ Len(events) >= 3 /\ events[3] = "load_state_dict"
           /\ \A k \in 1..NumKeys : model_state[keys[k]] = ClosedForm(last.payloads, k)

C1_Witness ==
    /\ Buffered /\ last.op = "combine" /\ last.exc = "none"
    /\ Len(last.payloads) = 2 /\ AllWellFormed(last.payloads)
    /\ last.payloads[1].weight = 1 /\ last.payloads[2].weight = MaxWeight
    /\ last.payloads[1].gradients # last.payloads[2].gradients

\* C2: a process_individual_payload call on a server-mode strategy with a
\* zero-weight payload returns False and changes neither client_weights nor
\* client_parameters_stack nor the model, whatever calls came before it.
C2_RejectNoEffect ==
    [][ (mode = "server" /\ last'.op = "process" /\ last'.payloads[1].weight = 0)
          => /\ last'.ret = "False" /\ last'.exc = "none"
             /\ UNCHANGED << client_weights, client_parameters_stack, model_state >> ]_vars

C2_Witness ==
    /\ mode = "server" /\ last.op = "process" /\ last.payloads[1].weight = 0
    /\ last.ret = "False" /\ client_weights # <<>> /\ model_state # InitialModel

\* the weight list, the payload buffer and the round's accepted payloads `ps`
\* agree: same length, same weights in the same order, same sum, i-th weight
\* with i-th payload; and an accepting call returned True
BuffersMatch(ps) ==
    /\ Len(client_weights) = Len(ps)
    /\ Len(client_parameters_stack) = Len(ps)
    /\ SumSeq(client_weights) = SumSeq(Weights(ps))
    /\ \A i \in 1..Len(ps) :
          /\ i <= Len(client_weights) /\ client_weights[i] = ps[i].weight
          /\ i <= Len(client_parameters_stack) /\ client_parameters_stack[i] = ps[i].gradients
    /\ (last.op = "process" /\ last.payloads[1].weight # 0) => last.ret = "True"

C4_BuffersEmptyAfterCombine ==
    (mode = "server" /\ last.op = "combine")
        => client_parameters_stack = <<>> /\ client_weights = <<>>

\* C5: when a step of the guarded set-up on rank 0 raises an Exception, once the
\* error has left run_worker terminate_workers has been called on the server.
C5_TerminateBeforePropagate ==
    (pc0 = "exited" /\ raised # "none" /\ catchable) => terminate_calls > 0

\* C6: a server-only method on a client-mode strategy, and generate_client_payload
\* on a server-mode strategy, fail with the role error (RuntimeError) itself.
C6_RoleGating ==
    /\ (mode = "client" /\ last.op \in {"process", "combine"}) => last.exc = "RuntimeError"
    /\ (mode = "server" /\ last.op = "generate") => last.exc = "RuntimeError"

\* what the buffered code path loads for the round ps: the blended mapping, or
\* nothing when aggregation or the blend raises
Loaded(ps) ==
    LET agg == aggregate_gradients(Stack(ps), Weights(ps), FALSE)
        both == tmp_both(agg.tmp_sup, agg.tmp_unsup)
    IN  IF agg.exc = "none" /\ both.exc = "none"
        THEN [loaded |-> TRUE, d |-> both.d]
        ELSE [loaded |-> FALSE, d |-> EmptyDict]

\* C7: a fast_aggregation strategy fed the payloads a buffered one completes a
\* round with also completes it: each accepting process_individual_payload
\* returns, and combine_payloads returns having loaded the same aggregate.
C7_FastEqualsBuffered ==
    (mode = "server" /\ aggregate_fast /\ AllWellFormed(accepted))
        => /\ (last.op = "process" /\ last.payloads[1].weight # 0) => last.exc = "none"
           /\ (last.op = "combine" /\ last.payloads # <<>>)
                 => /\ last.exc \in {"none", "ExternalError"}
                    /\ \A k \in KeySet : model_state[k] = Loaded(last.payloads).d[k]

Permute(ps, f) == [i \in 1..Len(ps) |-> ps[f[i]]]

\* C8: in buffered mode the aggregate loaded for a round is the same for every
\* order in which the round's payloads were processed.
C8_OrderIndependent ==
    (Buffered /\ last.op = "combine")
        => \A f \in Permutations(1..Len(last.payloads)) :
              Loaded(Permute(last.payloads, f)) = Loaded(last.payloads)

\* the last combine_payloads call got past load_state_dict: it returned, or
\* raised only in a collaborator called after the load
LoadCompleted == last.op = "combine" /\ last.exc \in {"none", "ExternalError"}

\* C9: a round holding a payload whose tensor list does not match the model's
\* keys makes combine_payloads fail; no load_state_dict call completes.
C9_MismatchIsFatal ==
    (Buffered /\ last.op = "combine" /\ ~AllWellFormed(last.payloads)) => ~LoadCompleted

\* C10: a combine_payloads call on a server-mode strategy made when no payload
\* was accepted since the previous combine_payloads call raises (and not from a
\* division by zero), calls neither load_state_dict nor update_model nor
\* run_lr_scheduler, and leaves the model as it was.
C10_EmptyRoundFails ==
    [][ (mode = "server" /\ last'.op = "combine" /\ since_combine = 0)
          => /\ last'.exc \notin {"none", "ZeroDivisionError"} /\ last'.ret = "raise"
             /\ \A i \in 1..Len(events') :
                   events'[i] \notin {"load_state_dict", "update_model", "run_lr_scheduler"}
             /\ model_state' = model_state ]_vars

C10_Witness ==
    /\ mode = "server" /\ last.op = "combine" /\ last.exc = "IndexError"
    /\ since_combine = 0 /\ client_weights = <<>> /\ model_state # InitialModel
    /\ accept_count > 0

\* the payloads accepted since the last combine_payloads call: the newest
\* since_combine entries of `accepted`
Round == SubSeq(accepted, Len(accepted) - since_combine + 1, Len(accepted))

\* C11: a combine_payloads call in which update_model or run_lr_scheduler raises
\* leaves client_parameters_stack and client_weights empty, and the next
\* combine_payloads call is entered with exactly the payloads accepted after
\* the failed call in the buffers and, if it gets past load_state_dict, has
\* loaded the aggregate of those payloads alone.
C11_ResetBeforeUpdate ==
    [][ /\ (last'.op = "combine" /\ UpdateRaised')
            => client_parameters_stack' = <<>> /\ client_weights' = <<>>
        /\ (mode = "server" /\ last'.op = "combine" /\ prev_combine' = "update_raised")
            => /\ client_weights = Weights(Round)
               /\ client_parameters_stack = Stack(Round)
               /\ LoadCompleted' =>
                     \A k \in KeySet : model_state'[k] = Loaded(Round).d[k] ]_vars

C11_Witness ==
    /\ mode = "server" /\ last.op = "combine" /\ prev_combine = "update_raised"
    /\ last.exc = "none" /\ last.payloads # <<>>
    /\ accept_count > Len(last.payloads)
    /\ \A k \in KeySet : model_state[k] = Loaded(last.payloads).d[k]

\* the collaborator calls of the last call, as a set
Called == {events[i] : i \in 1..Len(events)}

\* the last two collaborator calls of the last call
LastTwo == SubSeq(events, Len(events) - 1, Len(events))

\* C12: a combine_payloads call on a server-mode strategy with skip_model_update
\* set calls neither update_model nor run_lr_scheduler and, when it returns,
\* returns None having aggregated, cleared the buffers and loaded the blend of
\* the round (which it does for every non-empty buffered round of well-formed
\* payloads); with the flag not set, a call that returns has called
\* update_model and then run_lr_scheduler and returns the losses.
C12_SkipModelUpdate ==
    (mode = "server" /\ last.op = "combine")
        => /\ skip_model_update
                => /\ Called \cap {"update_model", "run_lr_scheduler"} = {}
                   /\ last.ret # "losses"
                   /\ (Buffered /\ last.payloads # <<>> /\ AllWellFormed(last.payloads))
                         => LoadCompleted
                   /\ last.exc = "none"
                         => /\ last.ret = "None"
                            /\ SubSeq(events, 1, 3) = <<"aggregate", "reset", "load_state_dict">>
                            /\ client_parameters_stack = <<>> /\ client_weights = <<>>
                            /\ \A k \in KeySet : model_state[k] = Loaded(last.payloads).d[k]
           /\ (~skip_model_update /\ last.exc = "none")
                => /\ last.ret = "losses"
                   /\ LastTwo = <<"update_model", "run_lr_scheduler">>
                   /\ \A k \in KeySet : model_state[k] = Loaded(last.payloads).d[k]

C12_Witness ==
    /\ mode = "server" /\ skip_model_update /\ last.op = "combine"
    /\ last.exc = "none" /\ last.ret = "None" /\ Len(last.payloads) = 2
    /\ model_state # InitialModel /\ client_weights = <<>>

Max(a, b) == IF a > b THEN a ELSE b

\* C13: the payload returned by generate_client_payload on a client-mode
\* strategy has weight max(1, num_samples) for the trainer's num_samples (a
\* sample count, 0 or more); the weight is neither 0 nor negative.
C13_WeightIsMaxOneSamples ==
    (mode = "client" /\ last.op = "generate" /\ last.exc = "none")
        => /\ last.payloads[1].weight = Max(1, last_trainer[1].num_samples)
           /\ last.payloads[1].weight > 0

C13_Witness ==
    /\ mode = "client" /\ last.op = "generate" /\ last.exc = "none"
    /\ last_trainer[1].num_samples = 0 /\ last.payloads[1].weight = 1

\* C14: a combine_payloads call on a server-mode strategy that returns was
\* entered with exactly the payloads accepted after the previous
\* combine_payloads call (returned or raised) in the buffers, and has loaded
\* the aggregate of those payloads and of no other.
C14_NoCarryOver ==
    [][ (mode = "server" /\ last'.op = "combine" /\ last'.exc = "none")
          => /\ client_weights = Weights(Round)
             /\ client_parameters_stack = Stack(Round)
             /\ last'.payloads = Round
             /\ \A k \in KeySet : model_state'[k] = Loaded(Round).d[k] ]_vars

C14_Witness ==
    /\ mode = "server" /\ last.op = "combine" /\ last.exc = "none"
    /\ prev_combine = "update_raised"
    /\ Len(last.payloads) = 2 /\ last.payloads[1].weight # last.payloads[2].weight
    /\ accept_count = 3

\* C15: select_strategy returns DGA, FedAvg and FedLabels for the names 'dga',
\* 'fedavg' and 'fedlabels' spelled with each letter in either case, and raises
\* ValueError, returning no class, for every other name.
C15_SelectStrategy ==
    selected # "none"
        => /\ strategy_name \in CaseVariants(name_dga) => selected = "DGA"
           /\ strategy_name \in CaseVariants(name_fedavg) => selected = "FedAvg"
           /\ strategy_name \in CaseVariants(name_fedlabels) => selected = "FedLabels"
           /\ strategy_name \notin (CaseVariants(name_dga) \cup CaseVariants(name_fedavg)
                                      \cup CaseVariants(name_fedlabels))
                 => selected = "ValueError"

C15_Witness ==
    /\ strategy_name = << "F", "e", "d", "L", "a", "b", "e", "l", "s" >>
    /\ selected = "FedLabels"

\* C16: in a buffered round of payloads built by generate_client_payload, the
\* split at int(len/2) of the first buffered payload gives, for every payload
\* whose trainer has as many state_dict entries as algo_computation entries,
\* the trainer's state_dict tensors as the supervised half and its
\* algo_computation tensors as the unsupervised half.
C16_SplitRoundTrip ==
    (Buffered /\ last.op = "combine" /\ last.payloads # <<>>)
        => \A i \in 1..Len(last.payloads) : \A t \in Trainers :
              (t.has_algo /\ Gradients(t) = last.payloads[i].gradients
                 /\ Len(state_dict(t)) = Len(algo_computation(t)))
              => /\ model_dicts(Stack(last.payloads))[i] = state_dict(t)
                 /\ unsup_dicts(Stack(last.payloads))[i] = algo_computation(t)

IsStep(e) == e # "compute_grad_cosines"

\* the collaborator calls of the last call without the diagnostics
Steps == SelectSeq(events, IsStep)

\* position of the first call of e among the calls of the last call (0: none)
FirstAt(e) ==
    IF e \in Called THEN CHOOSE i \in 1..Len(events) :
                            events[i] = e /\ \A j \in 1..(i - 1) : events[j] # e
    ELSE 0

\* C17: a combine_payloads call on a server-mode strategy that returns has made,
\* in this order and once each: the aggregation of the buffered payloads, the
\* buffer reset, load_state_dict, and unless skip_model_update update_model and
\* run_lr_scheduler; in every call, returning or not, update_model comes after
\* load_state_dict and after an aggregation that completed.
C17_EventOrder ==
    (mode = "server" /\ last.op = "combine")
        => /\ last.exc = "none"
                => Steps = <<"aggregate", "reset", "load_state_dict">>
                             \o (IF skip_model_update THEN <<>>
                                 ELSE <<"update_model", "run_lr_scheduler">>)
           /\ "update_model" \in Called
                => /\ FirstAt("aggregate") = 1
                   /\ 0 < FirstAt("load_state_dict")
                   /\ FirstAt("load_state_dict") < FirstAt("update_model")
           /\ "run_lr_scheduler" \in Called
                => /\ 0 < FirstAt("update_model")
                   /\ FirstAt("update_model") < FirstAt("run_lr_scheduler")

C17_Witness ==
    /\ mode = "server" /\ last.op = "combine" /\ last.exc = "none" /\ dump_norm_stats
    /\ events = <<"aggregate", "reset", "load_state_dict", "compute_grad_cosines",
                  "update_model", "run_lr_scheduler">>
    /\ Len(last.payloads) = 2

\* the payload is one that generate_client_payload builds for some trainer
Generated(p) == \E t \in Trainers : t.has_algo /\ p = MakePayload(t)

\* C18: a buffered server-mode process_individual_payload call given a payload
\* that generate_client_payload built (for a trainer with num_samples >= 0)
\* returns True and records the payload's weight and tensors at the end of the
\* buffers; it never takes the zero-weight rejection.
C18_GeneratedIsAccepted ==
    [][ (Buffered /\ last'.op = "process" /\ Generated(last'.payloads[1]))
          => /\ last'.ret = "True" /\ last'.exc = "none"
             /\ client_weights' = Append(client_weights, last'.payloads[1].weight)
             /\ client_parameters_stack' =
                    Append(client_parameters_stack, last'.payloads[1].gradients) ]_vars

C18_Witness ==
    /\ Buffered /\ last.op = "process" /\ last.ret = "True"
    /\ \E t \in Trainers :
          t.has_algo /\ t.num_samples = 0 /\ last.payloads[1] = MakePayload(t)
    /\ Len(client_weights) = 2 /\ Len(client_parameters_stack) = 2

\* C19: when a step of the guarded set-up on rank 0 raises, the exception that
\* leaves run_worker is that step's exception and server.run() is not entered.
C19_OriginalErrorPropagates ==
    (raised # "none")
        => /\ ~run_entered
           /\ pc0 = "exited" => propagated = raised

====
